---- MODULE Spec2Model ----
(***************************************************************************)
(* A model of aichat-cli (src/src/main.rs): the interactive loop of main,  *)
(* the input reader get_user_input, the knowledge loaders, the prompt      *)
(* built by process_with_llm and the typing-effect renderer typewriter.    *)
(*                                                                         *)
(* A text the program composes from its literals and the dataset files is  *)
(* a TLA+ string.  A text that comes from outside and is handled character *)
(* by character (a line from the terminal, which is trimmed, and a reply   *)
(* of the model, which is typed out) is the sequence of its chars, each    *)
(* char its Unicode code point.                                            *)
(***************************************************************************)
EXTENDS Integers, Sequences, FiniteSets, TLC

VARIABLES
    running,        \* the AtomicBool shared with the Ctrl-C handler
    knowledge,      \* main's `knowledge` String (ActiveKnowledge)
    history_list,   \* main's `history_list` Vec<Message>
    pc,             \* where main's control is
    line,           \* what read_line last returned in get_user_input
    input,          \* main's `input`: the last line read, trimmed
    selection,      \* main's `selection`: the entry last picked at the prompt
    inflight,       \* the requests sent to the model and not yet answered
    pending,        \* typewriter: the characters of the reply still to print
    rendered,       \* typewriter: the characters of the reply printed so far
    res,            \* main's `res`, the outcome of process_with_llm
    exit_status,    \* how the process ended, "none" while it runs
    fs,             \* the two dataset files, as the file system holds them
    panic_message   \* the message of the panic that ended the process, or ""

vars == <<running, knowledge, history_list, pc, line, input, selection,
          inflight, pending, rendered, res, exit_status, fs, panic_message>>

----------------------------------------------------------------------------
(* Bounds of the model *)

\* The longest conversation history the model builds.
MaxHistory == 4

----------------------------------------------------------------------------
(* Strings *)

\* char::is_whitespace: the code points with the Unicode property
\* White_Space.  U+0009..U+000D (tab, line feed, vertical tab, form feed,
\* carriage return), U+0020, U+0085, U+00A0, U+1680, U+2000..U+200A, U+2028,
\* U+2029, U+202F, U+205F, U+3000.
IsWhitespace(c) ==
    \/ c \in 9..13
    \/ c \in {32, 133, 160, 5760}
    \/ c \in 8192..8202
    \/ c \in {8232, 8233, 8239, 8287, 12288}

RECURSIVE TrimStart(_)
TrimStart(s) ==
    IF s # <<>> /\ IsWhitespace(Head(s)) THEN TrimStart(Tail(s)) ELSE s

RECURSIVE TrimEnd(_)
TrimEnd(s) ==
    IF s # <<>> /\ IsWhitespace(s[Len(s)])
    THEN TrimEnd(SubSeq(s, 1, Len(s) - 1))
    ELSE s

\* str::trim: leading and trailing whitespace removed, the inside kept.
Trim(s) == TrimEnd(TrimStart(s))

\* The literals the input is compared with, as their chars.
EXIT  == <<101, 120, 105, 116>>         \* "exit"
CLEAR == <<99, 108, 101, 97, 114>>      \* "clear"
DOT_K == <<46, 107>>                    \* ".k"

----------------------------------------------------------------------------
(* Messages *)

SystemMessage(text) == [role |-> "system", content |-> text]
HumanMessage(text)  == [role |-> "human",  content |-> text]
AIMessage(text)     == [role |-> "ai",     content |-> text]

----------------------------------------------------------------------------
(* Knowledge files and their loaders *)

\* A file is unreadable, or readable text that is not JSON, or a JSON object
\* (a record of the fields it has).
Unreadable   == [readable |-> FALSE]
NotJson      == [readable |-> TRUE, json |-> FALSE]
JsonFile(o)  == [readable |-> TRUE, json |-> TRUE, obj |-> o]

\* What a loader does: it panics with a message, or returns the text.
Panic(msg)   == [panic |-> TRUE, msg |-> msg]
Loaded(text) == [panic |-> FALSE, text |-> text]

READ_FAILED  == "Failed to read JSON file"
PARSE_FAILED == "Failed to parse JSON"

PII_HEADER ==
    "Here is the knowledge about Category of PII (Personal Identifiable Information) :\n"
NON_PII_HEADER ==
    "Here is the knowledge about Category of Non-PII (Personal Identifiable Information) :\n"

\* for desc in descs { knowledge.push_str(&desc); knowledge.push_str("\n"); }
RECURSIVE PushDescriptions(_, _)
PushDescriptions(k, descs) ==
    IF descs = <<>> THEN k
    ELSE PushDescriptions((k \o Head(descs)) \o "\n", Tail(descs))

PIIDataDescriptionFields == {"pii_description", "exclude_pii_description"}

\* RenderPII with the two sections in the other order.
RenderPII_ExcludedFirst(parsed_json) ==
    LET k1 == "" \o PII_HEADER
        k2 == PushDescriptions(k1, parsed_json.exclude_pii_description)
        k3 == k2 \o NON_PII_HEADER
    IN  PushDescriptions(k3, parsed_json.pii_description)

RenderPII(parsed_json) ==
    LET k1 == "" \o PII_HEADER
        k2 == PushDescriptions(k1, parsed_json.pii_description)
        k3 == k2 \o NON_PII_HEADER
    IN  PushDescriptions(k3, parsed_json.exclude_pii_description)

load_pii_knowledge(file) ==
    IF ~file.readable THEN Panic(READ_FAILED)
    ELSE IF ~file.json THEN Panic(PARSE_FAILED)
    ELSE IF ~(PIIDataDescriptionFields \subseteq DOMAIN file.obj)
         THEN Panic(PARSE_FAILED)
    ELSE Loaded(RenderPII(file.obj))

MQ_HEADER       == "Here is the knowledge about Message sync MQ Pub/Sub :\n"
MQ_STATE_HEADER == "Here is the knowledge about Message sync MQ Pub/Sub Current State :\n"
MQ_TECH_HEADER  == "Here is the knowledge about Message sync MQ Pub/Sub Technology :\n"
MQ_TOPIC_HEADER == "Here is the knowledge about Message sync MQ Pub/Sub Topics :\n"

PushTopic(k, topic) ==
    LET k1 == ((k  \o "Business Module: ") \o topic.business_module) \o "\n"
        k2 == ((k1 \o "Topic Name or Topic String: ") \o topic.topic_name) \o "\n"
        k3 == ((k2 \o "Publisher: ") \o topic.publisher) \o "\n"
    IN  ((k3 \o "Remark: ") \o topic.remark) \o "\n"

RECURSIVE PushTopics(_, _)
PushTopics(k, topics) ==
    IF topics = <<>> THEN k
    ELSE PushTopics(PushTopic(k, Head(topics)), Tail(topics))

MQDataDescriptionFields ==
    {"mq_data_background", "mq_data_current_state", "mq_technology",
     "mq_pub_sub_topics"}
MQTopicDescriptionFields ==
    {"business_module", "topic_name", "publisher", "remark"}

\* RenderMQ without the push of "\n" after the topics.
RenderMQ_NoBlankLine(parsed_json) ==
    LET k1 == (("" \o MQ_HEADER) \o parsed_json.mq_data_background) \o "\n"
        k2 == ((k1 \o MQ_STATE_HEADER) \o parsed_json.mq_data_current_state) \o "\n"
        k3 == ((k2 \o MQ_TECH_HEADER) \o parsed_json.mq_technology) \o "\n"
        k4 == k3 \o MQ_TOPIC_HEADER
    IN  PushTopics(k4, parsed_json.mq_pub_sub_topics)

RenderMQ(parsed_json) ==
    LET k1 == (("" \o MQ_HEADER) \o parsed_json.mq_data_background) \o "\n"
        k2 == ((k1 \o MQ_STATE_HEADER) \o parsed_json.mq_data_current_state) \o "\n"
        k3 == ((k2 \o MQ_TECH_HEADER) \o parsed_json.mq_technology) \o "\n"
        k4 == k3 \o MQ_TOPIC_HEADER
    IN  PushTopics(k4, parsed_json.mq_pub_sub_topics) \o "\n"

load_mq_knowledge(file) ==
    IF ~file.readable THEN Panic(READ_FAILED)
    ELSE IF ~file.json THEN Panic(PARSE_FAILED)
    ELSE IF ~(MQDataDescriptionFields \subseteq DOMAIN file.obj)
         THEN Panic(PARSE_FAILED)
    ELSE IF \E i \in 1..Len(file.obj.mq_pub_sub_topics) :
               ~(MQTopicDescriptionFields \subseteq
                     DOMAIN file.obj.mq_pub_sub_topics[i])
         THEN Panic(PARSE_FAILED)
    ELSE Loaded(RenderMQ(file.obj))

----------------------------------------------------------------------------
(* What the environment supplies *)

PiiGood    == JsonFile([pii_description |-> <<"A", "B">>,
                        exclude_pii_description |-> <<"C">>])
PiiEmpty   == JsonFile([pii_description |-> <<>>,
                        exclude_pii_description |-> <<>>])
PiiMissing == JsonFile([pii_description |-> <<"A">>])

Topic1 == [business_module |-> "X", topic_name |-> "Y",
           publisher |-> "Z", remark |-> "R"]
Topic2 == [business_module |-> "M", topic_name |-> "N",
           publisher |-> "P", remark |-> "Q"]
MqGood    == JsonFile([mq_data_background |-> "bg",
                       mq_data_current_state |-> "cs",
                       mq_technology |-> "tech",
                       mq_pub_sub_topics |-> <<Topic1, Topic2>>])
MqMissing == JsonFile([mq_data_background |-> "bg",
                       mq_data_current_state |-> "cs",
                       mq_pub_sub_topics |-> <<Topic1>>])

\* What dataset/pii_data.json and dataset/mq_data.json may hold.
PiiFiles == {Unreadable, PiiMissing, PiiGood, PiiEmpty}
MqFiles  == {NotJson, MqMissing, MqGood}

NotRead      == [got |-> "nothing"]
ReadError    == [got |-> "error"]
ReadOk(text) == [got |-> "line", chars |-> text]

\* What read_line may return: a failure, end of input, blank lines, the
\* exit keyword, the two reserved commands and lines for the model, with
\* and without whitespace around and inside them: ASCII whitespace, the
\* other White_Space code points, and U+200B, which is not White_Space.
Reads ==
    { ReadError,
      ReadOk(<<>>),                                       \* ""
      ReadOk(<<10>>),                                     \* "\n"
      ReadOk(<<32, 9, 13, 10>>),                          \* " \t\r\n"
      ReadOk(<<12, 10>>),                                 \* "\f\n"
      ReadOk(<<11, 133, 160, 8232, 12288, 10>>),          \* VT NEL NBSP LS U+3000
      ReadOk(<<101, 120, 105, 116, 10>>),                 \* "exit\n"
      ReadOk(<<32, 101, 120, 105, 116, 32, 10>>),         \* " exit \n"
      ReadOk(<<12, 101, 120, 105, 116, 10>>),             \* "\fexit\n"
      ReadOk(<<12288, 101, 120, 105, 116, 160, 10>>),     \* U+3000 "exit" NBSP
      ReadOk(<<8203, 101, 120, 105, 116, 10>>),           \* U+200B "exit\n"
      ReadOk(<<99, 108, 101, 97, 114, 10>>),              \* "clear\n"
      ReadOk(<<46, 107, 13, 10>>),                        \* ".k\r\n"
      ReadOk(<<104, 105, 10>>),                           \* "hi\n"
      ReadOk(<<32, 104, 105, 10>>),                       \* " hi\n"
      ReadOk(<<12, 104, 105, 12, 10>>),                   \* "\fhi\f\n"
      ReadOk(<<97, 32, 98, 10>>) }                        \* "a b\n"

\* The completions the model may return: "ok" and "yes".
Replies == { <<111, 107>>, <<121, 101, 115>> }

\* The entries of the selection prompt: "PII Data", "E-Kafka Topic", "MQ Pub/Sub".
Selections == 0..2

\* Select::default(0): the entry the prompt starts on.
DefaultSelection == 0

----------------------------------------------------------------------------
(* get_user_input, after its check of the flag *)

None    == [some |-> FALSE]
Some(v) == [some |-> TRUE, val |-> v]

\* get_user_input with the trim left out.
get_user_input_NoTrim(r) ==
    IF r.got = "error" THEN None
    ELSE LET untrimmed == r.chars
         IN  IF untrimmed = <<>> \/ untrimmed = EXIT THEN None
             ELSE Some(untrimmed)

get_user_input(r) ==
    IF r.got = "error" THEN None
    ELSE LET trimmed == Trim(r.chars)
         IN  IF trimmed = <<>> \/ trimmed = EXIT THEN None ELSE Some(trimmed)

----------------------------------------------------------------------------
(* process_with_llm: the prompt *)

SYSTEM_INSTRUCTION ==
    "You are a world-class technical documentation writer. Use the following knowledge to answer the user's query."

\* Prompt keeping only the newest message of the history (a window of one).
Prompt_KeepsNewestOnly(inp, know, history) ==
    (<<SystemMessage(SYSTEM_INSTRUCTION),
       SystemMessage("Knowledge:\n" \o know)>>
     \o (IF history = <<>> THEN <<>> ELSE <<history[Len(history)]>>))
    \o <<HumanMessage(inp)>>

\* message_formatter![system instruction, "Knowledge:\n{knowledge}",
\*                    placeholder history, template "{input}"]
Prompt(inp, know, history) ==
    (<<SystemMessage(SYSTEM_INSTRUCTION),
       SystemMessage("Knowledge:\n" \o know)>>
     \o history)
    \o <<HumanMessage(inp)>>

----------------------------------------------------------------------------
(* The state machine *)

Init ==
    /\ running = TRUE
    /\ knowledge = ""
    /\ history_list = <<>>
    /\ pc = "LoopHead"
    /\ line = NotRead
    /\ input = <<>>
    /\ selection = DefaultSelection
    /\ inflight = <<>>
    /\ pending = <<>>
    /\ rendered = <<>>
    /\ res = "None"
    /\ exit_status = "none"
    /\ fs \in [pii : PiiFiles, mq : MqFiles]
    /\ panic_message = ""

\* The handler flipping the flag instead of storing false.
Interrupt_Toggles ==
    /\ exit_status = "none"
    /\ running' = ~running
    /\ UNCHANGED <<knowledge, history_list, pc, line, input, selection,
                   inflight, pending, rendered, res, exit_status, fs,
                   panic_message>>

\* The Ctrl-C handler: r.store(false).
Interrupt ==
    /\ exit_status = "none"
    /\ running' = FALSE
    /\ UNCHANGED <<knowledge, history_list, pc, line, input, selection,
                   inflight, pending, rendered, res, exit_status, fs,
                   panic_message>>

\* while running.load(..) { .. }  Ok(())
LoopCheck ==
    /\ pc = "LoopHead"
    /\ IF running
       THEN pc' = "InputCheck" /\ UNCHANGED exit_status
       ELSE pc' = "Stopped" /\ exit_status' = "success"
    /\ UNCHANGED <<running, knowledge, history_list, line, input, selection,
                   inflight, pending, rendered, res, fs, panic_message>>

\* get_user_input: if !running.load(..) { return None }, then the prompt.
InputCheck ==
    /\ pc = "InputCheck"
    /\ IF running
       THEN pc' = "Reading" /\ UNCHANGED exit_status
       ELSE pc' = "Stopped" /\ exit_status' = "success"
    /\ UNCHANGED <<running, knowledge, history_list, line, input, selection,
                   inflight, pending, rendered, res, fs, panic_message>>

\* ReadNone handing a failed read up as the error of main.
ReadNone_FailsOnError(r) ==
    /\ pc = "Reading"
    /\ ~get_user_input(r).some
    /\ line' = r
    /\ input' = <<>>
    /\ pc' = "Stopped"
    /\ exit_status' = (IF r.got = "error" THEN "failure" ELSE "success")
    /\ UNCHANGED <<running, knowledge, history_list, selection, inflight,
                   pending, rendered, res, fs, panic_message>>

\* read_line returns r and get_user_input returns None: break, Ok(()).
ReadNone(r) ==
    /\ pc = "Reading"
    /\ ~get_user_input(r).some
    /\ line' = r
    /\ input' = <<>>
    /\ pc' = "Stopped"
    /\ exit_status' = "success"
    /\ UNCHANGED <<running, knowledge, history_list, selection, inflight,
                   pending, rendered, res, fs, panic_message>>

\* read_line returns r, the input is "clear": history_list.clear(); continue.
ClearCmd(r) ==
    /\ pc = "Reading"
    /\ get_user_input(r).some
    /\ get_user_input(r).val = CLEAR
    /\ line' = r
    /\ input' = get_user_input(r).val
    /\ history_list' = <<>>
    /\ pc' = "LoopHead"
    /\ UNCHANGED <<running, knowledge, selection, inflight, pending, rendered,
                   res, exit_status, fs, panic_message>>

\* read_line returns r, the input is ".k": the selection prompt is shown.
KnowledgeCmd(r) ==
    /\ pc = "Reading"
    /\ get_user_input(r).some
    /\ get_user_input(r).val = DOT_K
    /\ line' = r
    /\ input' = get_user_input(r).val
    /\ pc' = "Select"
    /\ UNCHANGED <<running, knowledge, history_list, selection, inflight,
                   pending, rendered, res, exit_status, fs, panic_message>>

\* match selection { 0 => load_pii_knowledge(..), 1 => "", 2 => load_mq_knowledge(..), _ => "" }
LoadSelection(sel) ==
    CASE sel = 0 -> load_pii_knowledge(fs.pii)
      [] sel = 1 -> Loaded("")
      [] sel = 2 -> load_mq_knowledge(fs.mq)
      [] OTHER   -> Loaded("")

\* Select with knowledge.clear() left out: the loaded text is appended.
Select_NoClear(sel) ==
    /\ pc = "Select"
    /\ selection' = sel
    /\ LET got == LoadSelection(sel)
       IN  IF got.panic
           THEN /\ knowledge' = knowledge
                /\ pc' = "Panicked"
                /\ exit_status' = "failure"
                /\ panic_message' = got.msg
           ELSE /\ knowledge' = knowledge \o got.text
                /\ pc' = "LoopHead"
                /\ UNCHANGED <<exit_status, panic_message>>
    /\ UNCHANGED <<running, history_list, line, input, inflight, pending,
                   rendered, res, fs>>

\* The message of the panic of Result::unwrap on an Err (printed with
\* backquotes around Result::unwrap() and Err).
UNWRAP_FAILED == "called Result::unwrap() on an Err value"

\* interact() returns Err (the prompt is interrupted, or there is no
\* terminal to show it on): unwrap panics before knowledge.clear(), so the
\* knowledge is as it was and nothing is selected.
SelectErr ==
    /\ pc = "Select"
    /\ pc' = "Panicked"
    /\ exit_status' = "failure"
    /\ panic_message' = UNWRAP_FAILED
    /\ UNCHANGED <<running, knowledge, history_list, line, input, selection,
                   inflight, pending, rendered, res, fs>>

\* interact() returns Ok(sel), the entry the user picked: knowledge.clear(),
\* then the match pushes the loaded text; a loader that fails panics with
\* the knowledge cleared.
Select(sel) ==
    /\ pc = "Select"
    /\ selection' = sel
    /\ LET cleared == ""
           got     == LoadSelection(sel)
       IN  IF got.panic
           THEN /\ knowledge' = cleared
                /\ pc' = "Panicked"
                /\ exit_status' = "failure"
                /\ panic_message' = got.msg
           ELSE /\ knowledge' = cleared \o got.text
                /\ pc' = "LoopHead"
                /\ UNCHANGED <<exit_status, panic_message>>
    /\ UNCHANGED <<running, history_list, line, input, inflight, pending,
                   rendered, res, fs>>

\* Ask building the prompt from the history as it was before the human
\* message of the turn is pushed.
Ask_BuildsBeforePush(r) ==
    /\ pc = "Reading"
    /\ get_user_input(r).some
    /\ get_user_input(r).val \notin {CLEAR, DOT_K}
    /\ Len(history_list) + 2 <= MaxHistory
    /\ LET inp == get_user_input(r).val
       IN  /\ line' = r
           /\ input' = inp
           /\ history_list' = Append(history_list, HumanMessage(inp))
           /\ inflight' = Append(inflight, Prompt(inp, knowledge, history_list))
    /\ pc' = "Querying"
    /\ UNCHANGED <<running, knowledge, selection, pending, rendered, res,
                   exit_status, fs, panic_message>>

\* Ask sending the request twice.
Ask_SendsTwice(r) ==
    /\ pc = "Reading"
    /\ get_user_input(r).some
    /\ get_user_input(r).val \notin {CLEAR, DOT_K}
    /\ Len(history_list) + 2 <= MaxHistory
    /\ LET inp     == get_user_input(r).val
           history == Append(history_list, HumanMessage(inp))
           request == Prompt(inp, knowledge, history)
       IN  /\ line' = r
           /\ input' = inp
           /\ history_list' = history
           /\ inflight' = (inflight \o <<request>>) \o <<request>>
    /\ pc' = "Querying"
    /\ UNCHANGED <<running, knowledge, selection, pending, rendered, res,
                   exit_status, fs, panic_message>>

\* read_line returns r, any other input: the human message is pushed, the
\* prompt is built from the knowledge and the history and sent.
Ask(r) ==
    /\ pc = "Reading"
    /\ get_user_input(r).some
    /\ get_user_input(r).val \notin {CLEAR, DOT_K}
    /\ Len(history_list) + 2 <= MaxHistory
    /\ LET inp     == get_user_input(r).val
           history == Append(history_list, HumanMessage(inp))
       IN  /\ line' = r
           /\ input' = inp
           /\ history_list' = history
           /\ inflight' = Append(inflight, Prompt(inp, knowledge, history))
    /\ pc' = "Querying"
    /\ UNCHANGED <<running, knowledge, selection, pending, rendered, res,
                   exit_status, fs, panic_message>>

\* CallOk pushing the AI message twice.
CallOk_PushesTwice(reply) ==
    /\ pc = "Querying"
    /\ inflight' = Tail(inflight)
    /\ history_list' = Append(Append(history_list, AIMessage(reply)),
                              AIMessage(reply))
    /\ pending' = reply
    /\ rendered' = <<>>
    /\ pc' = "Rendering"
    /\ UNCHANGED <<running, knowledge, line, input, selection, res,
                   exit_status, fs, panic_message>>

\* chain.invoke(..).await returns Ok(result): the spinner is cleared, the AI
\* message is pushed and typewriter starts on the result.
CallOk(reply) ==
    /\ pc = "Querying"
    /\ inflight' = Tail(inflight)
    /\ history_list' = Append(history_list, AIMessage(reply))
    /\ pending' = reply
    /\ rendered' = <<>>
    /\ pc' = "Rendering"
    /\ UNCHANGED <<running, knowledge, line, input, selection, res,
                   exit_status, fs, panic_message>>

\* CallErr pushing an (empty) AI message for the failed call.
CallErr_PushesAI ==
    /\ pc = "Querying"
    /\ inflight' = Tail(inflight)
    /\ history_list' = Append(history_list, AIMessage(<<>>))
    /\ res' = "Err"
    /\ pc' = "CheckRes"
    /\ UNCHANGED <<running, knowledge, line, input, selection, pending,
                   rendered, exit_status, fs, panic_message>>

\* CallErr taking the human message of the failed turn back out.
CallErr_DropsHuman ==
    /\ pc = "Querying"
    /\ inflight' = Tail(inflight)
    /\ history_list' = SubSeq(history_list, 1, Len(history_list) - 1)
    /\ res' = "Err"
    /\ pc' = "CheckRes"
    /\ UNCHANGED <<running, knowledge, line, input, selection, pending,
                   rendered, exit_status, fs, panic_message>>

\* chain.invoke(..).await returns Err: process_with_llm returns the error.
CallErr ==
    /\ pc = "Querying"
    /\ inflight' = Tail(inflight)
    /\ res' = "Err"
    /\ pc' = "CheckRes"
    /\ UNCHANGED <<running, knowledge, history_list, line, input, selection,
                   pending, rendered, exit_status, fs, panic_message>>

\* TypeChar without the load of the flag.
TypeChar_NoCheck ==
    /\ pc = "Rendering"
    /\ pending # <<>>
    /\ rendered' = Append(rendered, Head(pending))
    /\ pending' = Tail(pending)
    /\ UNCHANGED <<running, knowledge, history_list, pc, line, input,
                   selection, inflight, res, exit_status, fs, panic_message>>

\* typewriter: the flag is set to run and a character is left: print it.
TypeChar ==
    /\ pc = "Rendering"
    /\ pending # <<>>
    /\ running
    /\ rendered' = Append(rendered, Head(pending))
    /\ pending' = Tail(pending)
    /\ UNCHANGED <<running, knowledge, history_list, pc, line, input,
                   selection, inflight, res, exit_status, fs, panic_message>>

\* TypeEnd keeping in the history the text that was printed.
TypeEnd_StoresRendered ==
    /\ pc = "Rendering"
    /\ pending = <<>> \/ ~running
    /\ pending' = <<>>
    /\ history_list' = Append(SubSeq(history_list, 1, Len(history_list) - 1),
                              AIMessage(rendered))
    /\ res' = "Ok"
    /\ pc' = "CheckRes"
    /\ UNCHANGED <<running, knowledge, line, input, selection, inflight,
                   rendered, exit_status, fs, panic_message>>

\* typewriter: no character is left, or the flag says stop (break);
\* println, and process_with_llm returns Ok(result).
TypeEnd ==
    /\ pc = "Rendering"
    /\ pending = <<>> \/ ~running
    /\ pending' = <<>>
    /\ res' = "Ok"
    /\ pc' = "CheckRes"
    /\ UNCHANGED <<running, knowledge, history_list, line, input, selection,
                   inflight, rendered, exit_status, fs, panic_message>>

\* if let Err(e) = res { error!(..) }, and the loop body ends.
CheckRes ==
    /\ pc = "CheckRes"
    /\ res' = "None"
    /\ rendered' = <<>>
    /\ pc' = "LoopHead"
    /\ UNCHANGED <<running, knowledge, history_list, line, input, selection,
                   inflight, pending, exit_status, fs, panic_message>>

Next ==
    \/ Interrupt
    \/ LoopCheck
    \/ InputCheck
    \/ \E r \in Reads : ReadNone(r)
    \/ \E r \in Reads : Ask(r)
    \/ \E r \in Reads : ClearCmd(r)
    \/ \E r \in Reads : KnowledgeCmd(r)
    \/ SelectErr
    \/ \E s \in Selections : Select(s)
    \/ \E reply \in Replies : CallOk(reply)
    \/ CallErr
    \/ TypeChar
    \/ TypeEnd
    \/ CheckRes

Spec == Init /\ [][Next]_vars

\* A step of main's thread: every step but the signal handler's.
MainStep ==
    \/ LoopCheck
    \/ InputCheck
    \/ \E r \in Reads : ReadNone(r)
    \/ \E r \in Reads : Ask(r)
    \/ \E r \in Reads : ClearCmd(r)
    \/ \E r \in Reads : KnowledgeCmd(r)
    \/ SelectErr
    \/ \E s \in Selections : Select(s)
    \/ \E reply \in Replies : CallOk(reply)
    \/ CallErr
    \/ TypeChar
    \/ TypeEnd
    \/ CheckRes

\* main's thread keeps running, a pending read returns and a pending call
\* returns; nothing says that Ctrl-C is ever pressed.
LiveSpec == Spec /\ WF_vars(MainStep)

----------------------------------------------------------------------------
(* The knowledge commands alone, over all small well-formed documents *)

\* The longest list of descriptions, and of topics, in a document.
MaxDescs  == 2
MaxTopics == 2

SeqsUpTo(S, n) == UNION { [1..k -> S] : k \in 0..n }

Descriptions == {"A", "B"}

PiiDocs ==
    { JsonFile([pii_description |-> i, exclude_pii_description |-> e]) :
        i \in SeqsUpTo(Descriptions, MaxDescs),
        e \in SeqsUpTo(Descriptions, MaxDescs) }

MqDocs ==
    { JsonFile([mq_data_background |-> "bg",
                mq_data_current_state |-> "cs",
                mq_technology |-> "tech",
                mq_pub_sub_topics |-> t]) :
        t \in SeqsUpTo({Topic1, Topic2}, MaxTopics) }

LoadInit ==
    /\ running = TRUE
    /\ knowledge = ""
    /\ history_list = <<>>
    /\ pc = "LoopHead"
    /\ line = NotRead
    /\ input = <<>>
    /\ selection = DefaultSelection
    /\ inflight = <<>>
    /\ pending = <<>>
    /\ rendered = <<>>
    /\ res = "None"
    /\ exit_status = "none"
    /\ fs \in [pii : PiiDocs, mq : MqDocs]
    /\ panic_message = ""

LoadNext ==
    \/ LoopCheck
    \/ InputCheck
    \/ \E r \in Reads : KnowledgeCmd(r)
    \/ SelectErr
    \/ \E s \in Selections : Select(s)

LoadSpec == LoadInit /\ [][LoadNext]_vars

----------------------------------------------------------------------------
(* Helpers of the properties *)

Last(s) == s[Len(s)]
Front(s) == SubSeq(s, 1, Len(s) - 1)

\* The REPL's WaitingForInput: the loop's check of the flag, get_user_input's
\* check of it, and the blocking read.
WaitingForInput == pc \in {"LoopHead", "InputCheck", "Reading"}

\* The trimmed text of the line last read (empty when the read failed).
TrimmedLine(r) == IF r.got = "line" THEN Trim(r.chars) ELSE <<>>

\* The step in which the load of a knowledge-select command fails: the
\* panic is the one of a loader's expect, not the one of the prompt.
FailedLoadStep ==
    /\ pc = "Select"
    /\ pc' # "Select"
    /\ LoadSelection(selection').panic
    /\ panic_message' \in {READ_FAILED, PARSE_FAILED}

----------------------------------------------------------------------------
(* C1..C3: knowledge load failures, and an interrupt during the read *)

\* C1: when the load of a knowledge-select command fails, ActiveKnowledge
\* after the failure equals its value before the command.
C1_FailedLoadKeepsKnowledge ==
    [][ FailedLoadStep => knowledge' = knowledge ]_vars

\* C2: after a failed knowledge-select command the REPL is back in
\* WaitingForInput and the process has not ended.
C2_FailedLoadReturnsToWaiting ==
    [][ FailedLoadStep => (WaitingForInput' /\ exit_status' = "none") ]_vars

\* C3: when the flag was set while the REPL was blocked in the read, the
\* return of the read takes the REPL to Stopped whatever the line is: the
\* line is not dispatched, the history is unchanged and no request is sent.
C3_InterruptedReadStops ==
    [][ (pc = "Reading" /\ ~running /\ pc' # "Reading")
            => /\ pc' = "Stopped"
               /\ history_list' = history_list
               /\ knowledge' = knowledge
               /\ inflight' = <<>> ]_vars

----------------------------------------------------------------------------
(* C4..C6: the history across failed and successful turns *)

\* main holds the Err of a failed remote call (line 283).
AfterFailedCall == pc = "CheckRes" /\ res = "Err"

\* The human messages of h that no AI message answers.
Unanswered(h) ==
    Cardinality({ i \in 1..Len(h) :
                    /\ h[i].role = "human"
                    /\ (i = Len(h) \/ h[i + 1].role # "ai") })

HumanTurns(h) == Cardinality({ i \in 1..Len(h) : h[i].role = "human" })

Alternating(h) ==
    \A i \in 1..Len(h) : h[i].role = (IF i % 2 = 1 THEN "human" ELSE "ai")

\* C4 as stated: after any failed remote call, in any sequence of turns,
\* the length of the history is odd and the process is still running.
C4_FailedCallLeavesOddLength ==
    AfterFailedCall => (Len(history_list) % 2 = 1 /\ exit_status = "none")

\* C4 as amended: after a failed remote call the history ends with the
\* human message of the turn (no assistant turn appended), and its length is
\* odd exactly when the number of earlier human messages left unanswered is
\* even: odd when every earlier turn since the history was last empty got
\* its reply, even after one earlier failed turn. The error does not stop
\* the loop: control goes back to the loop's head with the process running.
C4_FailedCallKeepsHumanTurn ==
    /\ [](AfterFailedCall =>
            /\ history_list # <<>>
            /\ Last(history_list).role = "human"
            /\ (Len(history_list) % 2 = 1
                    <=> Unanswered(Front(history_list)) % 2 = 0)
            /\ exit_status = "none")
    /\ [][ (AfterFailedCall /\ pc' # pc)
               => (pc' = "LoopHead" /\ exit_status' = "none") ]_vars

\* A second failed turn in a row: the history has two human messages.
C4_Witness ==
    /\ AfterFailedCall
    /\ Len(history_list) = 2
    /\ history_list[1].role = "human"

\* C5: a turn whose remote call fails changes the history by exactly one
\* appended message, the human message of the turn: it is appended before
\* the call, the failure appends nothing and sends no further request (no
\* retry), and the REPL is back at WaitingForInput.
C5_FailedTurnAppendsHumanOnly ==
    /\ [](AfterFailedCall =>
            /\ history_list # <<>>
            /\ Last(history_list) = HumanMessage(input)
            /\ inflight = <<>>)
    /\ [][ /\ (pc = "Reading" /\ pc' = "Querying")
               => history_list' = Append(history_list, HumanMessage(input'))
           /\ (pc = "Querying" /\ res' = "Err")
               => (history_list' = history_list /\ inflight' = <<>>)
           /\ (AfterFailedCall /\ pc' # pc)
               => /\ history_list' = history_list
                  /\ inflight' = <<>>
                  /\ WaitingForInput' ]_vars

\* A failed turn after a successful one.
C5_Witness ==
    /\ AfterFailedCall
    /\ Len(history_list) = 3
    /\ history_list[2].role = "ai"
    /\ Last(history_list) = HumanMessage(<<97, 32, 98>>)

\* C6: from the empty history, N user turns that each got a reply leave
\* exactly 2N messages, human and assistant alternating, human first; a
\* successful reply appends exactly the one assistant message; "clear"
\* leaves the history empty whatever its length was.
C6_SuccessfulTurnsGiveTwoN ==
    /\ []((pc = "LoopHead" /\ Unanswered(history_list) = 0) =>
            /\ Len(history_list) = 2 * HumanTurns(history_list)
            /\ Alternating(history_list))
    /\ [][ /\ (pc = "Querying" /\ pc' = "Rendering")
               => /\ Len(history_list') = Len(history_list) + 1
                  /\ Front(history_list') = history_list
                  /\ Last(history_list').role = "ai"
           /\ (pc = "Reading" /\ pc' # "Reading"
                   /\ TrimmedLine(line') = CLEAR)
               => Len(history_list') = 0 ]_vars

\* Two successful turns done.
C6_Witness ==
    /\ pc = "LoopHead"
    /\ Len(history_list) = 4
    /\ Unanswered(history_list) = 0
    /\ HumanTurns(history_list) = 2

----------------------------------------------------------------------------
(* C7..C10: the commands *)

\* The rendering of the source behind entry sel of the selection prompt.
SourceRendering(sel) ==
    CASE sel = 0 -> RenderPII(fs.pii.obj)
      [] sel = 2 -> RenderMQ(fs.mq.obj)
      [] OTHER   -> ""

\* C7: after every knowledge-select command that completes, ActiveKnowledge
\* is exactly the rendering of the selected source, whatever it was before
\* (never a concatenation), and the empty string for the source without a
\* file.
C7_SelectReplacesKnowledge ==
    [][ (pc = "Select" /\ pc' = "LoopHead")
            => knowledge' = SourceRendering(selection') ]_vars

\* The MQ catalog selected; the PII file is loadable too.
C7_Witness ==
    /\ pc = "LoopHead"
    /\ input = DOT_K
    /\ selection = 2
    /\ fs.pii = PiiGood
    /\ knowledge = RenderMQ(MqGood.obj)

\* C8: a line that is empty after trimming, or that is the exit keyword,
\* takes the REPL to Stopped with success status; no request is sent for it
\* and the history is unchanged.
C8_EmptyOrExitStops ==
    [][ (pc = "Reading" /\ pc' # "Reading" /\ line'.got = "line"
             /\ TrimmedLine(line') \in {<<>>, EXIT})
            => /\ pc' = "Stopped"
               /\ exit_status' = "success"
               /\ inflight' = <<>>
               /\ history_list' = history_list ]_vars

\* The exit keyword with an ideographic space before it and a no-break
\* space after it, after a turn.
C8_Witness ==
    /\ pc = "Stopped"
    /\ line = ReadOk(<<12288, 101, 120, 105, 116, 160, 10>>)
    /\ history_list # <<>>
    /\ exit_status = "success"

\* C9: a line that is neither a reserved command nor an exit condition
\* causes exactly one request; a request is only ever sent by the reading of
\* such a line; the request is answered and the reply rendered before the
\* next line is read; never more than one request is in flight.
C9_OneCallPerLine ==
    /\ [](/\ Len(inflight) <= 1
          /\ (pc = "Querying" <=> Len(inflight) = 1)
          /\ (WaitingForInput => (pending = <<>> /\ res = "None")))
    /\ [][ /\ (pc = "Reading" /\ pc' # "Reading" /\ line'.got = "line"
                 /\ TrimmedLine(line') \notin {<<>>, EXIT, CLEAR, DOT_K})
               => (pc' = "Querying" /\ Len(inflight') = Len(inflight) + 1)
           /\ (inflight' # inflight /\ inflight' # <<>>)
               => (pc = "Reading" /\ inflight = <<>>) ]_vars

\* The second request of a session is in flight.
C9_Witness ==
    /\ pc = "Querying"
    /\ Len(inflight) = 1
    /\ Len(history_list) = 3

\* C10: "clear" empties the history, leaves the knowledge unchanged and
\* sends no request; the knowledge-select command changes only the
\* knowledge, leaves the history unchanged and sends no request; neither
\* line is appended to the history, and both return to WaitingForInput.
C10_ReservedCommandsFrame ==
    [][ /\ (pc = "Reading" /\ pc' # "Reading" /\ TrimmedLine(line') = CLEAR)
            => /\ history_list' = <<>>
               /\ knowledge' = knowledge
               /\ inflight' = <<>>
               /\ WaitingForInput'
        /\ (pc = "Reading" /\ pc' # "Reading" /\ TrimmedLine(line') = DOT_K)
            => /\ history_list' = history_list
               /\ knowledge' = knowledge
               /\ inflight' = <<>>
        /\ (pc = "Select" /\ pc' # "Select")
            => /\ history_list' = history_list
               /\ inflight' = <<>>
               /\ exit_status' = "none"
               /\ WaitingForInput' ]_vars

----------------------------------------------------------------------------
(* C11, C12, C20: the request *)

\* The request that is in flight (when one is).
Request == inflight[1]

\* The request has a system block after the instruction.
HasKnowledgeBlock(p) == Len(p) >= 2 /\ p[2].role = "system"

\* C11: the request has a knowledge block exactly when ActiveKnowledge is
\* not empty; when it has one, it is the second block, right after the
\* instruction, and the history follows it.
C11_KnowledgeBlockIffNonEmpty ==
    pc = "Querying" =>
        /\ HasKnowledgeBlock(Request) <=> knowledge # ""
        /\ \A i \in 3..Len(Request) : Request[i].role # "system"

\* C12: the request starts with the fixed system instruction, holds every
\* message of the history in its order, none dropped, and ends with the new
\* human input; the history is what was put in the request (building the
\* request did not change it).
C12_RequestCarriesWholeHistory ==
    pc = "Querying" =>
        /\ Len(inflight) = 1
        /\ Request[1] = SystemMessage(SYSTEM_INSTRUCTION)
        /\ Last(Request) = HumanMessage(input)
        /\ \E first \in 2..Len(Request) :
              /\ \A i \in 2..(first - 1) : Request[i].role = "system"
              /\ SubSeq(Request, first, Len(Request) - 1) = history_list

\* A request with a history of three messages and a knowledge text.
C12_Witness ==
    /\ pc = "Querying"
    /\ Len(history_list) = 3
    /\ history_list[2].role = "ai"
    /\ knowledge # ""

\* C20: when the request is sent, its history section already ends with the
\* human message of the turn, so the input is at the tail of the request
\* twice: as the last message of the history and as the final human turn.
C20_InputTwiceAtTail ==
    pc = "Querying" =>
        LET n == Len(Request)
        IN  /\ n >= 4
            /\ Request[n] = HumanMessage(input)
            /\ Request[n - 1] = HumanMessage(input)
            /\ Request[n - 1] = Last(history_list)

\* The request of a turn that follows a complete turn.
C20_Witness ==
    /\ pc = "Querying"
    /\ Len(Request) = 6
    /\ Request[4].role = "ai"
    /\ Request[5] = HumanMessage(<<97, 32, 98>>)
    /\ Request[6] = HumanMessage(<<97, 32, 98>>)

----------------------------------------------------------------------------
(* C13, C19: the typing effect; C14: Stopped *)

\* process_with_llm has returned Ok to main (line 283).
AfterRenderedReply == pc = "CheckRes" /\ res = "Ok"

\* text is the first k characters of the reply full.
IsPrefixOfReply(text, full) ==
    \E reply \in Replies : \E k \in 0..Len(reply) :
        reply = full /\ text = SubSeq(reply, 1, k)

\* C13: the reply is rendered one character at a time, in order, the flag
\* loaded before each character: what is rendered is always a prefix of the
\* reply, and once the flag reads as stop no further character of the reply
\* is rendered (none at all when it was set before the call returned).
\* TypeChar is the load of the flag with the print that follows it.
C13_RenderedIsPrefix ==
    /\ [](pc = "Rendering" =>
            rendered \o pending = Last(history_list).content)
    /\ [](AfterRenderedReply =>
            IsPrefixOfReply(rendered, Last(history_list).content))
    /\ [][ /\ (pc = "Querying" /\ pc' = "Rendering") => rendered' = <<>>
           /\ (pc = "Rendering" /\ rendered' # rendered)
               => /\ running
                  /\ pending # <<>>
                  /\ rendered' = Append(rendered, Head(pending))
                  /\ pending' = Tail(pending)
           /\ (pc = "Rendering" /\ ~running) => rendered' = rendered ]_vars

\* The rendering of "yes" with the flag set after two characters.
C13_Witness ==
    /\ pc = "Rendering"
    /\ ~running
    /\ rendered = <<121, 101>>
    /\ pending = <<115>>

\* C19: the reply is appended to the history before the rendering starts
\* and the rendering does not change the history: after the turn the last
\* message is the full reply, also when only a prefix of it was rendered.
C19_ReplyInHistoryBeforeRendering ==
    /\ [](AfterRenderedReply =>
            /\ history_list # <<>>
            /\ Last(history_list).role = "ai"
            /\ \E reply \in Replies : Last(history_list).content = reply)
    /\ [][ /\ (pc = "Querying" /\ pc' = "Rendering")
               => /\ rendered' = <<>>
                  /\ history_list' =
                         Append(history_list, AIMessage(pending'))
           /\ (pc = "Rendering") => history_list' = history_list ]_vars

\* The turn is over with "y" rendered of the reply "yes".
C19_Witness ==
    /\ AfterRenderedReply
    /\ rendered = <<121>>
    /\ Last(history_list) = AIMessage(<<121, 101, 115>>)

\* C14: Stopped is terminal: once there, no line is read, no request is
\* sent, the history and the knowledge do not change, and the exit status
\* is success.
C14_StoppedIsTerminal ==
    /\ [](pc = "Stopped" => (exit_status = "success" /\ inflight = <<>>))
    /\ [][ pc = "Stopped"
               => /\ pc' = "Stopped"
                  /\ line' = line
                  /\ inflight' = inflight
                  /\ history_list' = history_list
                  /\ knowledge' = knowledge
                  /\ exit_status' = exit_status ]_vars

\* Stopped by a failed read after a turn and a knowledge selection.
C14_Witness ==
    /\ pc = "Stopped"
    /\ line = ReadError
    /\ history_list # <<>>
    /\ knowledge # ""

----------------------------------------------------------------------------
(* C15, C16: the rendering of the knowledge documents *)

\* The text made of the lines ls, each ended by a line feed.
RECURSIVE Unlines(_)
Unlines(ls) ==
    IF ls = <<>> THEN "" ELSE (Head(ls) \o "\n") \o Unlines(Tail(ls))

\* A knowledge-select command has completed with entry sel.
Selected(sel) == pc = "LoopHead" /\ input = DOT_K /\ selection = sel

ExpectedPII(included, excluded) ==
    Unlines(
        ((<<"Here is the knowledge about Category of PII (Personal Identifiable Information) :">>
          \o included)
         \o <<"Here is the knowledge about Category of Non-PII (Personal Identifiable Information) :">>)
        \o excluded)

\* C15: for every well-formed PII document the rendered text is the
\* included-PII header line, the included descriptions one per line in
\* their order, the non-PII header line, the excluded descriptions one per
\* line in their order, and nothing else.
C15_PIIRendering ==
    Selected(0) =>
        knowledge = ExpectedPII(fs.pii.obj.pii_description,
                                fs.pii.obj.exclude_pii_description)

\* Two included descriptions, in the order B, A, and one excluded.
C15_Witness ==
    /\ Selected(0)
    /\ fs.pii.obj.pii_description = <<"B", "A">>
    /\ fs.pii.obj.exclude_pii_description = <<"A">>
    /\ knowledge # ""

TopicLines(topic) ==
    << "Business Module: " \o topic.business_module,
       "Topic Name or Topic String: " \o topic.topic_name,
       "Publisher: " \o topic.publisher,
       "Remark: " \o topic.remark >>

RECURSIVE AllTopicLines(_)
AllTopicLines(topics) ==
    IF topics = <<>> THEN <<>>
    ELSE TopicLines(Head(topics)) \o AllTopicLines(Tail(topics))

ExpectedMQ(doc) ==
    Unlines(
        (<< "Here is the knowledge about Message sync MQ Pub/Sub :",
            doc.mq_data_background,
            "Here is the knowledge about Message sync MQ Pub/Sub Current State :",
            doc.mq_data_current_state,
            "Here is the knowledge about Message sync MQ Pub/Sub Technology :",
            doc.mq_technology,
            "Here is the knowledge about Message sync MQ Pub/Sub Topics :" >>
         \o AllTopicLines(doc.mq_pub_sub_topics))
        \o <<"">>)

\* C16: for every well-formed MQ catalog the rendered text is the
\* background, current-state and technology sections in that order, each
\* after its header line, the Topics header, for each topic in the
\* catalog's order the four labeled lines Business Module, Topic Name,
\* Publisher, Remark, and one blank line at the end, also with no topics.
C16_MQRendering ==
    Selected(2) => knowledge = ExpectedMQ(fs.mq.obj)

\* A catalog with the topics in the order Topic2, Topic1.
C16_Witness ==
    /\ Selected(2)
    /\ fs.mq.obj.mq_pub_sub_topics = <<Topic2, Topic1>>
    /\ knowledge # ""

----------------------------------------------------------------------------
(* C17, C18: after the interrupt *)

\* C17: once the flag is set, the REPL reaches Stopped (a pending read and
\* a pending call returning), from whatever state it was in.
C17_InterruptLeadsToStopped == (~running) ~> (pc = "Stopped")

\* C17, the rest: with the flag set, control does not come back to the
\* read from anywhere else.
C17_NoSecondRead ==
    [][ (~running /\ pc # "Reading") => pc' # "Reading" ]_vars

\* The process ends once the flag is set: in Stopped, or in a panic of the
\* knowledge-select command (of the prompt or of a loader).
C17_InterruptLeadsToEnd ==
    (~running) ~> (pc \in {"Stopped", "Panicked"})

\* C18: the flag is true at startup and, once false, stays false; a request
\* is only sent by the return of the read, and with the flag false control
\* never enters the read again, so at most one request is sent after the
\* flag was set: the one of a read that was pending then.
C18_FlagMonotonic ==
    /\ running = TRUE
    /\ [][ ~running => ~running' ]_vars
    /\ [][ Len(inflight') > Len(inflight)
               => (pc = "Reading" /\ pc' = "Querying") ]_vars
    /\ [][ (~running /\ pc # "Reading") => pc' # "Reading" ]_vars

\* A request in flight with the flag set.
C18_Witness ==
    /\ pc = "Querying"
    /\ ~running
    /\ Len(inflight) = 1
    /\ Len(history_list) = 3

====
